---- MODULE Spec2Model ----
(***************************************************************************)
(* A model of the Maxwell's-demon particle simulation: the particle, the   *)
(* two interaction laws, the boundary container with its demon gate, the   *)
(* stepper MainState::compute_single_interaction and the host's controls.  *)
(*                                                                         *)
(* Numbers.  Every f32 of the program is a fixed-point integer counting    *)
(* hundredths (SCALE units to 1.0), but for a force, which counts           *)
(* ten-thousandths (FORCE units to 1.0) so that the Coulomb force at the   *)
(* cutoff distance is not rounded away; a product or quotient is rounded   *)
(* toward zero, which is symmetric in sign as IEEE rounding is.  Time      *)
(* steps count milliseconds.  Sums and differences are exact.              *)
(***************************************************************************)
EXTENDS Integers, Sequences, FiniteSets

VARIABLES
    particles,      \* MainState.particles: a sequence of Particle records
    container,      \* MainState.container: boundaries and demon_looking
    law,            \* MainState.law: "CoulombLaw" or "ImpulseCollision"
    slider_value,   \* MainState.slider_value
    paused,         \* MainState.paused
    pc,             \* where control is: "idle", or a phase of a running call
    i,              \* outer index of the pair loop (0-based, as in the code)
    j,              \* inner index of the pair loop
    k,              \* index of the reset loop and of the update loop
    dt,             \* the dt of the running compute_single_interaction (ms)
    substep,        \* update_state's counter i of its while loop
    ticks,          \* how many times update_state has been entered
    ret,            \* what the last resolve returned
    pre,            \* the particles as the last call found them
    log             \* what the running compute_single_interaction has done

vars == <<particles, container, law, slider_value, paused, pc, i, j, k, dt,
          substep, ticks, ret, pre, log>>

(***************************************************************************)
(* Fixed-point arithmetic                                                  *)
(***************************************************************************)
SCALE == 100

MILLI == 1000

FORCE == 10000

Abs(a) == IF a < 0 THEN -a ELSE a

Sign(a) == IF a < 0 THEN -1 ELSE 1

\* a * b of two fixed-point numbers; split so that no intermediate leaves 32 bits
FMul(a, b) ==
    Sign(a) * Sign(b) *
        ((Abs(a) \div SCALE) * Abs(b) + ((Abs(a) % SCALE) * Abs(b)) \div SCALE)

\* a / b of two fixed-point numbers; 0 / b is 0
FDiv(a, b) ==
    IF a = 0 THEN 0
    ELSE Sign(a) * Sign(b) * ((Abs(a) * SCALE) \div Abs(b))

\* a * t for a time step t in milliseconds
TMul(a, t) ==
    Sign(a) * Sign(t) *
        ((Abs(a) \div MILLI) * Abs(t) + ((Abs(a) % MILLI) * Abs(t)) \div MILLI)

\* the quotient and the remainder of a * b by c, for 0 <= a < c and 0 <= b,
\* by doubling, so that no intermediate leaves 32 bits
Halved(h, a, b, c) ==
    LET q2 == IF 2 * h[2] >= c THEN 2 * h[1] + 1 ELSE 2 * h[1]
        r2 == IF 2 * h[2] >= c THEN 2 * h[2] - c ELSE 2 * h[2]
        r3 == IF b % 2 = 1 THEN r2 + a ELSE r2
    IN  IF r3 >= c THEN <<q2 + 1, r3 - c>> ELSE <<q2, r3>>

RECURSIVE LongDiv(_, _, _)
LongDiv(a, b, c) ==
    IF b = 0 THEN <<0, 0>> ELSE Halved(LongDiv(a, b \div 2, c), a, b, c)

\* a * b / c
MulDiv(a, b, c) ==
    Sign(a) * Sign(b) * Sign(c) *
        ((Abs(a) \div Abs(c)) * Abs(b) + LongDiv(Abs(a) % Abs(c), Abs(b), Abs(c))[1])

\* force * t as a velocity, for a time step t in milliseconds
ForceStep(f, t) == MulDiv(f, t, MILLI * (FORCE \div SCALE))

RECURSIVE Newton(_, _)
Newton(n, x) ==
    LET y == (x + n \div x) \div 2
    IN  IF y >= x THEN x ELSE Newton(n, y)

\* the integer square root, rounded down
Isqrt(n) == IF n < 2 THEN n ELSE Newton(n, IF n < 46340 THEN n ELSE 46340)

\* f32::sqrt of a fixed-point number: floor(sqrt(a * SCALE)) = floor(10 * sqrt(a))
FSqrt(a) ==
    LET r0  == Isqrt(a)
        rem == a - r0 * r0
        t   == CHOOSE d \in 0..9 :
                   /\ 20 * r0 * d + d * d <= 100 * rem
                   /\ \/ d = 9
                      \/ 20 * r0 * (d + 1) + (d + 1) * (d + 1) > 100 * rem
    IN  10 * r0 + t

Max(a, b) == IF a >= b THEN a ELSE b

\* f32::sqrt of distance_sq = dx * dx + dy * dy (+ more): the f32 root is not
\* below |dx| or |dy|, and the rounding of the model's squares must not make it
Root(distance_sq, dx, dy) == Max(FSqrt(distance_sq), Max(Abs(dx), Abs(dy)))

Vec(x, y) == [x |-> x, y |-> y]

(***************************************************************************)
(* Particle (physics/particles.rs)                                         *)
(***************************************************************************)
RADIUS == 500

GRAVITY == 981

Particle(position, velocity, force) ==
    [position |-> position, velocity |-> velocity, force |-> force,
     radius |-> RADIUS]

reset_force(p) == [p EXCEPT !.force = Vec(0, 0)]

update_velocity(p, t) ==
    LET vy1 == p.velocity.y + TMul(GRAVITY, t)
        vy2 == vy1 + ForceStep(p.force.y, t)
        vx1 == p.velocity.x + ForceStep(p.force.x, t)
    IN  [p EXCEPT !.velocity = Vec(vx1, vy2)]

update_position(p, t) ==
    [p EXCEPT !.position = Vec(p.position.x + TMul(p.velocity.x, t),
                               p.position.y + TMul(p.velocity.y, t))]

\* Particle::update: the velocity first, then the position from the new velocity
update_PositionFirst(p, t) == update_velocity(update_position(p, t), t)

update(p, t) == update_position(update_velocity(p, t), t)

\* Particle::speed
speed(p) == FSqrt(FMul(p.velocity.x, p.velocity.x) + FMul(p.velocity.y, p.velocity.y))

\* Particle::kinetic_energy: 0.5 * speed^2
kinetic_energy(p) == FMul(SCALE \div 2, FMul(speed(p), speed(p)))


(***************************************************************************)
(* ImpulseCollision (physics/laws.rs)                                      *)
(***************************************************************************)
\* the overlap test of ImpulseCollision::resolve
Overlapping_Inclusive(distance_sq, radius_sum) ==
    distance_sq <= FMul(radius_sum, radius_sum)

Overlapping(distance_sq, radius_sum) ==
    distance_sq < FMul(radius_sum, radius_sum)

\* the early return "Only resolve if particles are moving toward each other"
SkipsResolution(rel_vel_dot_norm) == rel_vel_dot_norm > 0

\* the four velocity updates, as the pair of new velocities
ApplyImpulse_SameSign(p1, p2, impulse, nx, ny) ==
    <<Vec(p1.velocity.x - FMul(impulse, nx), p1.velocity.y - FMul(impulse, ny)),
      Vec(p2.velocity.x - FMul(impulse, nx), p2.velocity.y - FMul(impulse, ny))>>

ApplyImpulse(p1, p2, impulse, nx, ny) ==
    <<Vec(p1.velocity.x - FMul(impulse, nx), p1.velocity.y - FMul(impulse, ny)),
      Vec(p2.velocity.x + FMul(impulse, nx), p2.velocity.y + FMul(impulse, ny))>>

\* the four position updates, as the pair of new positions
Reposition(p1, p2, overlap, nx, ny) ==
    <<Vec(p1.position.x - FMul(overlap, nx), p1.position.y - FMul(overlap, ny)),
      Vec(p2.position.x + FMul(overlap, nx), p2.position.y + FMul(overlap, ny))>>

\* ImpulseCollision::resolve: the two particles afterwards and the returned bool
ImpulseResolve(p1, p2) ==
    LET dx == p2.position.x - p1.position.x
        dy == p2.position.y - p1.position.y
        distance_sq == FMul(dx, dx) + FMul(dy, dy)
        radius_sum == p1.radius + p2.radius
        distance == Root(distance_sq, dx, dy)
        nx == FDiv(dx, distance)
        ny == FDiv(dy, distance)
        rvx == p1.velocity.x - p2.velocity.x
        rvy == p1.velocity.y - p2.velocity.y
        rel_vel_dot_norm == FMul(rvx, nx) + FMul(rvy, ny)
        impulse == rel_vel_dot_norm
        vel == ApplyImpulse(p1, p2, impulse, nx, ny)
        overlap == FMul(SCALE \div 2, radius_sum - distance)
        pos == Reposition(p1, p2, overlap, nx, ny)
    IN  IF Overlapping(distance_sq, radius_sum)
        THEN IF distance = 0
             THEN [p1 |-> p1, p2 |-> p2, ret |-> TRUE]
             ELSE IF SkipsResolution(rel_vel_dot_norm)
                  THEN [p1 |-> p1, p2 |-> p2, ret |-> TRUE]
                  ELSE [p1 |-> [p1 EXCEPT !.velocity = vel[1],
                                          !.position = pos[1]],
                        p2 |-> [p2 EXCEPT !.velocity = vel[2],
                                          !.position = pos[2]],
                        ret |-> TRUE]
        ELSE [p1 |-> p1, p2 |-> p2, ret |-> FALSE]

(***************************************************************************)
(* CoulombLaw (physics/laws.rs)                                            *)
(***************************************************************************)
\* k = 8.9875517923e9, counted in millions
K_MEGA == 8987

\* p1_charge = p2_charge = 0.001234, counted in millionths
CHARGE_MICRO == 1234

\* k * (p1_charge * p2_charge) as a fixed-point number (13678.21)
ChargeTerm ==
    (K_MEGA * ((CHARGE_MICRO * CHARGE_MICRO) \div MILLI) * SCALE) \div MILLI

\* softening = 0.001: below a hundredth, it rounds to 0
Softening == SCALE \div MILLI

\* cutoff = 2000.0
Cutoff == 2000 * SCALE

\* sqrt(distance_sq) with the softening in distance_sq: the softening keeps the
\* f32 positive, so the smallest positive fixed-point number stands for a root
\* that rounds to 0
SoftDistance(distance_sq, dx, dy) == Max(Root(distance_sq, dx, dy), 1)

\* the cutoff test of CoulombLaw::resolve
BeyondCutoff_Never(distance) == FALSE

BeyondCutoff(distance) == distance > Cutoff

\* the floor of the squared distance at radius * 0.1
FloorDistanceSq(distance_sq, radius) ==
    IF distance_sq < FMul(radius, SCALE \div 10)
    THEN FMul(radius, SCALE \div 10)
    ELSE distance_sq

\* the four force updates, as the pair of new accumulators
Accumulate_BothAdded(p1, p2, fx, fy) ==
    <<Vec(p1.force.x + fx, p1.force.y + fy),
      Vec(p2.force.x + fx, p2.force.y + fy)>>

Accumulate(p1, p2, fx, fy) ==
    <<Vec(p1.force.x - fx, p1.force.y - fy),
      Vec(p2.force.x + fx, p2.force.y + fy)>>

\* CoulombLaw::resolve: the two particles afterwards and the returned bool
CoulombResolve(p1, p2) ==
    LET dx == p2.position.x - p1.position.x
        dy == p2.position.y - p1.position.y
        distance_sq0 == FMul(dx, dx) + FMul(dy, dy) + FMul(Softening, Softening)
        distance == SoftDistance(distance_sq0, dx, dy)
        distance_sq == FloorDistanceSq(distance_sq0, p1.radius)
        force_magnitude == MulDiv(ChargeTerm, FORCE, distance_sq)
        fx == MulDiv(force_magnitude, dx, distance)
        fy == MulDiv(force_magnitude, dy, distance)
        f == Accumulate(p1, p2, fx, fy)
    IN  IF BeyondCutoff(distance)
        THEN [p1 |-> p1, p2 |-> p2, ret |-> TRUE]
        ELSE [p1 |-> [p1 EXCEPT !.force = f[1]],
              p2 |-> [p2 EXCEPT !.force = f[2]],
              ret |-> TRUE]

\* build_interaction_law and the dispatch of law.resolve
Resolve(law_type, p1, p2) ==
    IF law_type = "CoulombLaw" THEN CoulombResolve(p1, p2)
    ELSE ImpulseResolve(p1, p2)

(***************************************************************************)
(* ParticleContainer (physics/container.rs)                                *)
(***************************************************************************)
mod_f32(x) == IF x < 0 THEN -x ELSE x

ParticleContainer(boundaries) ==
    [boundaries |-> boundaries, demon_looking |-> FALSE]

\* the test each wall makes: radius >= mod_f32(wall - coordinate)
Touches(radius, wall, coordinate) == radius >= mod_f32(wall - coordinate)

\* (boundaries.w - boundaries.x) / 2.0
Middle(c) == FDiv(c.boundaries.w - c.boundaries.x, 2 * SCALE)

LeftWall(c, p) ==
    IF Touches(p.radius, c.boundaries.x, p.position.x)
    THEN [p EXCEPT !.position.x = p.radius, !.velocity.x = -p.velocity.x]
    ELSE p

RightWall(c, p) ==
    IF Touches(p.radius, c.boundaries.w, p.position.x)
    THEN [p EXCEPT !.position.x = c.boundaries.w - p.radius,
                   !.velocity.x = -p.velocity.x]
    ELSE p

Ceiling(c, p) ==
    IF Touches(p.radius, c.boundaries.y, p.position.y)
    THEN [p EXCEPT !.position.y = p.radius, !.velocity.y = -p.velocity.y]
    ELSE p

Ground_WrongAxis(c, p) ==
    IF Touches(p.radius, c.boundaries.z, p.position.y)
    THEN [p EXCEPT !.position.y = c.boundaries.z - p.radius,
                   !.velocity.x = -p.velocity.x]
    ELSE p

Ground(c, p) ==
    IF Touches(p.radius, c.boundaries.z, p.position.y)
    THEN [p EXCEPT !.position.y = c.boundaries.z - p.radius,
                   !.velocity.y = -p.velocity.y]
    ELSE p

\* the speed below which a leftward particle is reflected, and the speed above
\* which a rightward one is
LeftwardLimit_Lower == 100 * SCALE

LeftwardLimit == 140 * SCALE

RightwardLimit == 10 * SCALE

\* speed < limit and speed > limit for speed = sqrt(vx^2 + vy^2), decided on the
\* squares, which are exact; a component beyond the limit decides it alone
SpeedBelow(v, limit) ==
    IF Max(Abs(v.x), Abs(v.y)) >= limit THEN FALSE
    ELSE v.x * v.x + v.y * v.y < limit * limit

SpeedAbove(v, limit) ==
    IF Max(Abs(v.x), Abs(v.y)) > limit THEN TRUE
    ELSE v.x * v.x + v.y * v.y > limit * limit

MiddleWall(c, p) ==
    IF Touches(p.radius, Middle(c), p.position.x) /\ c.demon_looking
    THEN IF p.velocity.x <= 0 /\ SpeedBelow(p.velocity, LeftwardLimit)
         THEN [p EXCEPT !.position.x = p.position.x + p.radius,
                        !.velocity.x = -p.velocity.x]
         ELSE IF p.velocity.x >= 0 /\ SpeedAbove(p.velocity, RightwardLimit)
              THEN [p EXCEPT !.position.x = p.position.x - p.radius,
                             !.velocity.x = -p.velocity.x]
              ELSE p
    ELSE p

\* ParticleContainer::collision: the five tests in the order of the code, each
\* on what the one before left
collision(c, p) ==
    MiddleWall(c, Ground(c, Ceiling(c, RightWall(c, LeftWall(c, p)))))

(***************************************************************************)
(* MainState (rendering/state.rs) and its event handlers                   *)
(* (rendering/events.rs)                                                   *)
(***************************************************************************)
\* bounds of the model
MaxN == 3

MaxTicks == 2

\* the largest coordinate and speed, in whole units, from which a call of
\* compute_single_interaction is still followed: beyond it the squares of the
\* model leave 32 bits
MaxCoord == 2000

InRange(p) ==
    /\ Abs(p.position.x) <= MaxCoord * SCALE
    /\ Abs(p.position.y) <= MaxCoord * SCALE
    /\ Abs(p.velocity.x) <= MaxCoord * SCALE
    /\ Abs(p.velocity.y) <= MaxCoord * SCALE

\* update_state's 20 sub-steps
SUBSTEPS == 20

\* the screen: graphics::drawable_size, in whole units
ScreenWidth == 60 * SCALE

ScreenHeight == 40 * SCALE

\* ggez::timer::delta, in milliseconds
FrameDeltas == {400}

\* what Particle::new may draw for the particle of each index: a position
\* inside the container inset by the radius, and a velocity
Drawn(n) ==
    CASE n = 1 -> {Particle(Vec(26 * SCALE, 20 * SCALE), Vec(-150 * SCALE, 0), Vec(0, 0)),
                   Particle(Vec(34 * SCALE, 20 * SCALE), Vec(-60 * SCALE, 0), Vec(0, 0))}
      [] n = 2 -> {Particle(Vec(18 * SCALE, 20 * SCALE), Vec(60 * SCALE, 0), Vec(0, 0)),
                   Particle(Vec(10 * SCALE, 30 * SCALE), Vec(8 * SCALE, -5 * SCALE), Vec(0, 0))}
      [] n = 3 -> {Particle(Vec(50 * SCALE, 10 * SCALE), Vec(-30 * SCALE, 40 * SCALE), Vec(0, 0))}
      [] OTHER -> {Particle(Vec(50 * SCALE, 30 * SCALE), Vec(0, -50 * SCALE), Vec(0, 0))}

\* the sequences of n drawn particles
RECURSIVE Populations(_)
Populations(n) ==
    IF n = 0 THEN {<<>>}
    ELSE {Append(ps, p) : ps \in Populations(n - 1), p \in Drawn(n)}

\* MainState::new
Init ==
    /\ \E n \in 0..MaxN : particles \in Populations(n)
    /\ container = ParticleContainer([x |-> 0, y |-> 0, z |-> ScreenHeight,
                                      w |-> ScreenWidth])
    /\ law \in {"CoulombLaw", "ImpulseCollision"}
    /\ slider_value = 50 * SCALE
    /\ paused = FALSE
    /\ pc = "idle"
    /\ i = 0 /\ j = 0 /\ k = 0
    /\ dt = 0
    /\ substep = 0
    /\ ticks = 0
    /\ ret = FALSE
    /\ pre = <<>>
    /\ log = <<>>

\* the three loops of compute_single_interaction, in the order of the code
Phases_PairsFirst == <<"pairs", "reset", "update">>

Phases_NoReset == <<"pairs", "update">>

Phases == <<"reset", "pairs", "update">>

\* where the inner loop of the pair pass starts: j in (i + 1)..len
InnerStart_Zero(a) == 0

InnerStart(a) == a + 1

\* the body of the last loop: particle.update(dt), then container.collision
Body_CollisionFirst == <<"collide", "update">>

Body == <<"update", "collide">>

\* the first pair at or after (a, b) of the loops over 0..len, or <<>>
RECURSIVE PairFrom(_, _, _)
PairFrom(len, a, b) ==
    IF a >= len THEN <<>>
    ELSE IF b < len THEN <<a, b>>
    ELSE PairFrom(len, a + 1, InnerStart(a + 1))

\* control at the start of the loop Phases[n], or of the first loop after it that
\* has an iteration; after the last loop the call returns to update_state
RECURSIVE Enter(_, _)
Enter(len, n) ==
    IF n > Len(Phases)
    THEN [pc |-> "called", i |-> 0, j |-> 0, k |-> 0]
    ELSE IF Phases[n] = "pairs"
    THEN IF PairFrom(len, 0, InnerStart(0)) = <<>>
         THEN Enter(len, n + 1)
         ELSE [pc |-> "pairs", i |-> PairFrom(len, 0, InnerStart(0))[1],
               j |-> PairFrom(len, 0, InnerStart(0))[2], k |-> 0]
    ELSE IF len = 0 THEN Enter(len, n + 1)
    ELSE [pc |-> IF Phases[n] = "reset" THEN "reset" ELSE Body[1],
          i |-> 0, j |-> 0, k |-> 0]

PhaseIndex(name) == CHOOSE n \in 1..Len(Phases) : Phases[n] = name

Goto(pos) ==
    /\ pc' = pos.pc
    /\ i' = pos.i
    /\ j' = pos.j
    /\ k' = pos.k

\* update_state: dt / 20, and the counter of the while loop set to 0
EnterUpdateState ==
    /\ ticks < MaxTicks
    /\ \E delta \in FrameDeltas : dt' = delta \div SUBSTEPS
    /\ substep' = 0
    /\ ticks' = ticks + 1
    /\ pc' = "loop"
    /\ UNCHANGED <<particles, container, law, slider_value, paused, i, j, k,
                   ret, pre, log>>

\* EventHandler::update
Update ==
    /\ pc = "idle"
    /\ IF paused THEN UNCHANGED vars ELSE EnterUpdateState

\* key_down_event, KeyCode::Space: pause_play
KeySpace ==
    /\ pc = "idle"
    /\ paused' = ~paused
    /\ UNCHANGED <<particles, container, law, slider_value, pc, i, j, k, dt,
                   substep, ticks, ret, pre, log>>

\* key_down_event, KeyCode::Right: update_state
KeyRight ==
    /\ pc = "idle"
    /\ EnterUpdateState

\* the slider of the sidebar
SliderX(c) == c.boundaries.w - 150 * SCALE + 10 * SCALE

SliderY == 80 * SCALE

SliderWidth == 150 * SCALE - 20 * SCALE

SliderHeight == 20 * SCALE

\* graphics::Rect::contains
InSlider(c, x, y) ==
    /\ x >= SliderX(c) /\ x <= SliderX(c) + SliderWidth
    /\ y >= SliderY /\ y <= SliderY + SliderHeight

clamp(v, lo, hi) == IF v < lo THEN lo ELSE IF v > hi THEN hi ELSE v

\* where the mouse may click: inside the slider and outside it
Clicks == {Vec(20 * SCALE, 90 * SCALE), Vec(30 * SCALE, 20 * SCALE)}

\* mouse_button_down_event: what it assigns
MouseEffect_ButtonAnywhere(button, at) ==
    /\ slider_value' =
          IF InSlider(container, at.x, at.y)
          THEN clamp(FMul(FDiv(at.x - SliderX(container), SliderWidth),
                          100 * SCALE), 0, 100 * SCALE)
          ELSE slider_value
    /\ container' =
          IF button = "Left"
          THEN [container EXCEPT !.demon_looking = FALSE]
          ELSE IF button = "Right"
          THEN [container EXCEPT !.demon_looking = TRUE]
          ELSE container

MouseEffect(button, at) ==
    IF InSlider(container, at.x, at.y)
    THEN /\ slider_value' =
                clamp(FMul(FDiv(at.x - SliderX(container), SliderWidth),
                           100 * SCALE), 0, 100 * SCALE)
         /\ UNCHANGED container
    ELSE /\ container' =
                IF button = "Left"
                THEN [container EXCEPT !.demon_looking = FALSE]
                ELSE IF button = "Right"
                THEN [container EXCEPT !.demon_looking = TRUE]
                ELSE container
         /\ UNCHANGED slider_value

\* the buttons of the mouse
Buttons == {"Left", "Right", "Middle"}

\* mouse_button_down_event
MouseDown ==
    /\ pc = "idle"
    /\ \E button \in Buttons, at \in Clicks : MouseEffect(button, at)
    /\ UNCHANGED <<particles, law, paused, pc, i, j, k, dt, substep, ticks,
                   ret, pre, log>>

\* the head of update_state's while loop: the next call of
\* compute_single_interaction, or the return to the host
LoopHead ==
    /\ pc = "loop"
    /\ \A n \in 1..Len(particles) : InRange(particles[n])
    /\ IF substep < SUBSTEPS
       THEN /\ Goto(Enter(Len(particles), 1))
            /\ pre' = particles
            /\ log' = <<>>
       ELSE /\ pc' = "idle"
            /\ UNCHANGED <<i, j, k, pre, log>>
    /\ UNCHANGED <<particles, container, law, slider_value, paused, dt,
                   substep, ticks, ret>>

\* compute_single_interaction has returned: i = i + 1
Return ==
    /\ pc = "called"
    /\ substep' = substep + 1
    /\ pc' = "loop"
    /\ UNCHANGED <<particles, container, law, slider_value, paused, i, j, k,
                   dt, ticks, ret, pre, log>>

\* one iteration of: for particle in &mut self.particles { particle.reset_force() }
ResetForce ==
    /\ pc = "reset"
    /\ particles' = [particles EXCEPT ![k + 1] = reset_force(@)]
    /\ log' = Append(log, <<"reset", k>>)
    /\ IF k + 1 < Len(particles)
       THEN /\ k' = k + 1
            /\ UNCHANGED <<pc, i, j>>
       ELSE Goto(Enter(Len(particles), PhaseIndex("reset") + 1))
    /\ UNCHANGED <<container, law, slider_value, paused, dt, substep, ticks,
                   ret, pre>>

\* one iteration of the pair loops: law.resolve(particle_i, particle_j)
ResolvePair ==
    /\ pc = "pairs"
    /\ LET r == Resolve(law, particles[i + 1], particles[j + 1])
           next == PairFrom(Len(particles), i, j + 1)
       IN  /\ particles' = [particles EXCEPT ![i + 1] = r.p1, ![j + 1] = r.p2]
           /\ ret' = r.ret
           /\ log' = Append(log, <<"resolve", i, j>>)
           /\ IF next # <<>>
              THEN /\ i' = next[1]
                   /\ j' = next[2]
                   /\ UNCHANGED <<pc, k>>
              ELSE Goto(Enter(Len(particles), PhaseIndex("pairs") + 1))
    /\ UNCHANGED <<container, law, slider_value, paused, dt, substep, ticks, pre>>

\* what one statement of the last loop's body does to its particle
Perform(statement, p) ==
    IF statement = "update" THEN update(p, dt) ELSE collision(container, p)

\* the first statement of the last loop's body, on particle k
BodyFirst ==
    /\ pc = Body[1]
    /\ particles' = [particles EXCEPT ![k + 1] = Perform(Body[1], @)]
    /\ log' = Append(log, <<Body[1], k>>)
    /\ pc' = "second"
    /\ UNCHANGED <<container, law, slider_value, paused, i, j, k, dt, substep,
                   ticks, ret, pre>>

\* the second statement of the body, on the same particle
BodySecond ==
    /\ pc = "second"
    /\ particles' = [particles EXCEPT ![k + 1] = Perform(Body[2], @)]
    /\ log' = Append(log, <<Body[2], k>>)
    /\ IF k + 1 < Len(particles)
       THEN /\ k' = k + 1
            /\ pc' = Body[1]
            /\ UNCHANGED <<i, j>>
       ELSE Goto(Enter(Len(particles), PhaseIndex("update") + 1))
    /\ UNCHANGED <<container, law, slider_value, paused, dt, substep, ticks,
                   ret, pre>>

Next ==
    \/ Update
    \/ KeySpace
    \/ KeyRight
    \/ MouseDown
    \/ LoopHead
    \/ Return
    \/ ResetForce
    \/ ResolvePair
    \/ BodyFirst
    \/ BodySecond

Spec == Init /\ [][Next]_vars

(***************************************************************************)
(* The laws and the container on their own: a call of resolve or of        *)
(* collision on arguments drawn from a set.  pc is "call" before the call  *)
(* and "returned" after it; pre keeps the arguments.                       *)
(***************************************************************************)
ProgramContainer ==
    ParticleContainer([x |-> 0, y |-> 0, z |-> ScreenHeight, w |-> ScreenWidth])

\* everything but particles, container, law and pc, before a call
CallInit ==
    /\ slider_value = 50 * SCALE
    /\ paused = FALSE
    /\ i = 0 /\ j = 0 /\ k = 0
    /\ dt = 0
    /\ substep = 0
    /\ ticks = 0
    /\ ret = FALSE
    /\ pre = <<>>
    /\ log = <<>>

\* law.resolve(&mut particles[0], &mut particles[1])
CallResolve ==
    /\ pc = "call"
    /\ LET r == Resolve(law, particles[1], particles[2])
       IN  /\ particles' = <<r.p1, r.p2>>
           /\ ret' = r.ret
    /\ pre' = particles
    /\ pc' = "returned"
    /\ UNCHANGED <<container, law, slider_value, paused, i, j, k, dt, substep,
                   ticks, log>>

\* container.collision(&mut particles[0])
CallCollision ==
    /\ pc = "call"
    /\ particles' = <<collision(container, particles[1])>>
    /\ pre' = particles
    /\ pc' = "returned"
    /\ UNCHANGED <<container, law, slider_value, paused, i, j, k, dt, substep,
                   ticks, ret, log>>

\* the velocities the arguments of ImpulseCollision::resolve are drawn from
ImpulseVelocities ==
    {Vec(5 * SCALE, 0), Vec(-5 * SCALE, 0), Vec(0, 0), Vec(0, 5 * SCALE),
     Vec(0, -5 * SCALE), Vec(3 * SCALE, 4 * SCALE), Vec(-3 * SCALE, -4 * SCALE),
     Vec(5 * SCALE, 2 * SCALE)}

\* where the second particle is, seen from the first
ImpulseOffsets ==
    {Vec(8 * SCALE, 0), Vec(-8 * SCALE, 0), Vec(0, 8 * SCALE), Vec(0, -8 * SCALE),
     Vec(10 * SCALE, 0), Vec(0, 10 * SCALE), Vec(12 * SCALE, 0), Vec(0, 0),
     Vec(3 * SCALE, 4 * SCALE), Vec(-3 * SCALE, -4 * SCALE),
     Vec(6 * SCALE, 8 * SCALE), Vec(-6 * SCALE, 8 * SCALE)}

InitImpulse ==
    /\ \E v1 \in ImpulseVelocities, v2 \in ImpulseVelocities, d \in ImpulseOffsets :
          particles = <<Particle(Vec(20 * SCALE, 20 * SCALE), v1, Vec(0, 0)),
                        Particle(Vec(20 * SCALE + d.x, 20 * SCALE + d.y), v2,
                                 Vec(FORCE, -2 * FORCE))>>
    /\ container = ProgramContainer
    /\ law = "ImpulseCollision"
    /\ pc = "call"
    /\ CallInit

SpecImpulse == InitImpulse /\ [][CallResolve]_vars

CoulombOffsets ==
    {Vec(3000 * SCALE, 0), Vec(2001 * SCALE, 0), Vec(2000 * SCALE, 0),
     Vec(1999 * SCALE, 0), Vec(0, -2500 * SCALE), Vec(-1500 * SCALE, 1500 * SCALE),
     Vec(1200 * SCALE, 1600 * SCALE), Vec(8 * SCALE, 0), Vec(0, -8 * SCALE),
     Vec(3 * SCALE, 4 * SCALE), Vec(-30 * SCALE, 40 * SCALE), Vec(0, 0),
     Vec(SCALE \div 2, 0), Vec(-100 * SCALE, 0)}

CoulombForces == {Vec(0, 0), Vec((3 * FORCE) \div 2, -2 * FORCE)}

CoulombVelocities == {Vec(0, 0), Vec(5 * SCALE, -3 * SCALE)}

InitCoulomb ==
    /\ \E d \in CoulombOffsets, f1 \in CoulombForces, f2 \in CoulombForces,
          v1 \in CoulombVelocities, v2 \in CoulombVelocities :
          particles = <<Particle(Vec(10 * SCALE, 10 * SCALE), v1, f1),
                        Particle(Vec(10 * SCALE + d.x, 10 * SCALE + d.y), v2, f2)>>
    /\ container = ProgramContainer
    /\ law = "CoulombLaw"
    /\ pc = "call"
    /\ CallInit

SpecCoulomb == InitCoulomb /\ [][CallResolve]_vars

\* where the argument of collision is, as distances from the left wall and from
\* the ceiling of a container 60 wide and 40 high
CollisionXs ==
    {-2 * SCALE, 0, 3 * SCALE, (9 * SCALE) \div 2, 5 * SCALE, 5 * SCALE + 1,
     12 * SCALE, 25 * SCALE, 27 * SCALE, 30 * SCALE, 35 * SCALE, 36 * SCALE,
     55 * SCALE - 1, 55 * SCALE, 57 * SCALE, 60 * SCALE, 63 * SCALE}

CollisionYs ==
    {-SCALE, 2 * SCALE, 5 * SCALE, 5 * SCALE + 1, 20 * SCALE, 35 * SCALE - 1,
     35 * SCALE, 38 * SCALE, 41 * SCALE}

CollisionVelocities ==
    {Vec(-3 * SCALE, 2 * SCALE), Vec(3 * SCALE, -2 * SCALE), Vec(0, 0),
     Vec(0, 7 * SCALE), Vec(-150 * SCALE, 0), Vec(-140 * SCALE, 0),
     Vec(-140 * SCALE + 1, 0), Vec(-84 * SCALE, 112 * SCALE),
     Vec(150 * SCALE, 0), Vec(10 * SCALE, 0), Vec(10 * SCALE + 1, 0),
     Vec(6 * SCALE, -8 * SCALE), Vec(0, 140 * SCALE), Vec(0, -150 * SCALE),
     Vec(50 * SCALE, 0), Vec(5 * SCALE, 0)}

\* the containers MainState::new builds, the gate in either state
InitCollision ==
    /\ \E x \in CollisionXs, y \in CollisionYs, v \in CollisionVelocities :
          particles = <<Particle(Vec(x, y), v, Vec(FORCE, -2 * FORCE))>>
    /\ \E demon \in BOOLEAN :
          container = [ProgramContainer EXCEPT !.demon_looking = demon]
    /\ law = "ImpulseCollision"
    /\ pc = "call"
    /\ CallInit

SpecCollision == InitCollision /\ [][CallCollision]_vars

\* any container: the left wall and the ceiling anywhere, the gate inactive
Origins == {Vec(0, 0), Vec(10 * SCALE, 0), Vec(0, 10 * SCALE), Vec(-20 * SCALE, -20 * SCALE)}

InitCollisionAny ==
    /\ \E o \in Origins, x \in CollisionXs, y \in CollisionYs,
          v \in {Vec(-3 * SCALE, 2 * SCALE), Vec(3 * SCALE, -2 * SCALE)} :
          /\ particles = <<Particle(Vec(o.x + x, o.y + y), v, Vec(0, 0))>>
          /\ container = ParticleContainer([x |-> o.x, y |-> o.y,
                                            z |-> o.y + ScreenHeight,
                                            w |-> o.x + ScreenWidth])
    /\ law = "ImpulseCollision"
    /\ pc = "call"
    /\ CallInit

SpecCollisionAny == InitCollisionAny /\ [][CallCollision]_vars

\* dt of a call, in milliseconds
RunDeltas == {20, 400}

\* particle.update(dt), as the last loop of compute_single_interaction calls it
CallUpdate ==
    /\ pc = "call"
    /\ particles' = <<Perform("update", particles[1])>>
    /\ pre' = particles
    /\ pc' = "returned"
    /\ UNCHANGED <<container, law, slider_value, paused, i, j, k, dt, substep,
                   ticks, ret, log>>

\* the particle update is called on, and the dt
UpdateVelocities ==
    {Vec(0, 0), Vec(5 * SCALE, -3 * SCALE), Vec(-150 * SCALE, 40 * SCALE),
     Vec(SCALE \div 3, -GRAVITY), Vec(12 * SCALE + 7, 250 * SCALE)}

UpdateForces ==
    {Vec(0, 0), Vec(50 * FORCE, -20 * FORCE), Vec(-(FORCE \div 3), 7 * FORCE + 1),
     Vec(0, -GRAVITY * (FORCE \div SCALE))}

InitUpdate ==
    /\ \E x \in {20 * SCALE, 7 * SCALE + 3}, v \in UpdateVelocities, f \in UpdateForces :
          particles = <<Particle(Vec(x, 30 * SCALE), v, f)>>
    /\ container = ProgramContainer
    /\ law \in {"CoulombLaw", "ImpulseCollision"}
    /\ pc = "call"
    /\ dt \in RunDeltas
    /\ slider_value = 50 * SCALE
    /\ paused = FALSE
    /\ i = 0 /\ j = 0 /\ k = 0
    /\ substep = 0
    /\ ticks = 0
    /\ ret = FALSE
    /\ pre = <<>>
    /\ log = <<>>

SpecUpdate == InitUpdate /\ [][CallUpdate]_vars

\* an f32 result: a number, or the NaN that 0.0 / 0.0 is
Number(value) == [nan |-> FALSE, value |-> value]

NaN == [nan |-> TRUE, value |-> 0]

\* the sum of the kinetic energies of the first n particles
RECURSIVE TotalKineticEnergy(_, _)
TotalKineticEnergy(ps, n) ==
    IF n = 0 THEN 0 ELSE TotalKineticEnergy(ps, n - 1) + kinetic_energy(ps[n])

\* MainState::average_kinetic_energy: tot_ke / tot, with no test of tot
average_kinetic_energy(ps) ==
    LET tot == Len(ps) * SCALE
        tot_ke == TotalKineticEnergy(ps, Len(ps))
    IN  IF tot = 0 THEN NaN ELSE Number(FDiv(tot_ke, tot))

\* self.average_kinetic_energy(), as draw calls it
CallAverage ==
    /\ pc = "call"
    /\ ret' = average_kinetic_energy(particles)
    /\ pre' = particles
    /\ pc' = "returned"
    /\ UNCHANGED <<particles, container, law, slider_value, paused, i, j, k, dt,
                   substep, ticks, log>>

\* the particle sets the average is taken of: what MainState::new builds, and
\* one or two particles of other velocities
EnergyPopulations ==
    UNION {Populations(n) : n \in 0..MaxN}
        \cup {<<Particle(Vec(20 * SCALE, 20 * SCALE), v, Vec(0, 0))>> :
                 v \in ImpulseVelocities}
        \cup {<<Particle(Vec(20 * SCALE, 20 * SCALE), v1, Vec(0, 0)),
                Particle(Vec(40 * SCALE, 20 * SCALE), v2, Vec(0, 0))>> :
                 v1 \in ImpulseVelocities, v2 \in CollisionVelocities}

InitAverage ==
    /\ particles \in EnergyPopulations
    /\ container = ProgramContainer
    /\ law = "ImpulseCollision"
    /\ pc = "call"
    /\ CallInit

SpecAverage == InitAverage /\ [][CallAverage]_vars

(***************************************************************************)
(* A run of whole calls of compute_single_interaction: one step is one     *)
(* call, and log keeps the particles as they were at the start and after   *)
(* every call.  The gate, the law and dt stay as they start.               *)
(***************************************************************************)
\* the one element of a set of one element
The(S) == CHOOSE x \in S : TRUE

\* the pair loops from the pair `pair` on (<<>>: past the last pair)
RECURSIVE ResolveFrom(_, _, _)
ResolveFrom(law_type, ps, pair) ==
    IF pair = <<>> THEN ps
    ELSE The({ResolveFrom(law_type,
                          [ps EXCEPT ![pair[1] + 1] = r.p1, ![pair[2] + 1] = r.p2],
                          PairFrom(Len(ps), pair[1], pair[2] + 1)) :
                 r \in {Resolve(law_type, ps[pair[1] + 1], ps[pair[2] + 1])}})

\* the reset loop over the first n particles
RECURSIVE ResetUpTo(_, _)
ResetUpTo(ps, n) ==
    IF n = 0 THEN <<>> ELSE Append(ResetUpTo(ps, n - 1), reset_force(ps[n]))

\* the first two loops of compute_single_interaction: the reset, then the pairs
AfterPairs(ps, law_type) ==
    The({ResolveFrom(law_type, reset, PairFrom(Len(reset), 0, InnerStart(0))) :
            reset \in {ResetUpTo(ps, Len(ps))}})

\* the last loop over the first n particles: update, then collision
RECURSIVE IntegratedUpTo(_, _, _, _)
IntegratedUpTo(ps, c, t, n) ==
    IF n = 0 THEN <<>>
    ELSE Append(IntegratedUpTo(ps, c, t, n - 1), collision(c, update(ps[n], t)))

\* compute_single_interaction, whole
compute_single_interaction(ps, c, law_type, t) ==
    The({IntegratedUpTo(resolved, c, t, Len(resolved)) :
            resolved \in {AfterPairs(ps, law_type)}})

\* how many calls a run is followed for
MaxCalls == 40

\* the integration of p over t moves it by less than its radius
SmallStep(p, t) ==
    LET q == update(p, t)
        mx == Abs(q.position.x - p.position.x)
        my == Abs(q.position.y - p.position.y)
    IN  /\ mx < p.radius
        /\ my < p.radius
        /\ mx * mx + my * my < p.radius * p.radius

\* one call; the run is followed while every particle's step is a small one
StepCall ==
    /\ pc = "run"
    /\ Len(log) <= MaxCalls
    /\ \A n \in 1..Len(particles) : InRange(particles[n])
    /\ \A n \in 1..Len(particles) : SmallStep(AfterPairs(particles, law)[n], dt)
    /\ particles' = compute_single_interaction(particles, container, law, dt)
    /\ log' = Append(log, particles')
    /\ pre' = particles
    /\ UNCHANGED <<container, law, slider_value, paused, pc, i, j, k, dt,
                   substep, ticks, ret>>

\* one particle on either side of the gate, as Particle::new may draw it
SortingStarts ==
    {Particle(Vec(x, 20 * SCALE), v, Vec(0, 0)) :
        x \in {37 * SCALE, 21 * SCALE + 30},
        v \in {Vec(-150 * SCALE, 0), Vec(-140 * SCALE, 0), Vec(-139 * SCALE, 0),
               Vec(-100 * SCALE, 120 * SCALE), Vec(-8 * SCALE, -5 * SCALE),
               Vec(0, -3 * SCALE), Vec(8 * SCALE, -5 * SCALE),
               Vec(9 * SCALE, -GRAVITY), Vec(50 * SCALE, 0), Vec(150 * SCALE, 0)}}

InitSorting ==
    /\ \E p \in SortingStarts : particles = <<p>>
    /\ container = [ProgramContainer EXCEPT !.demon_looking = TRUE]
    /\ law \in {"CoulombLaw", "ImpulseCollision"}
    /\ dt \in RunDeltas
    /\ log = <<particles>>
    /\ pc = "run"
    /\ slider_value = 50 * SCALE
    /\ paused = FALSE
    /\ i = 0 /\ j = 0 /\ k = 0
    /\ substep = 0
    /\ ticks = 0
    /\ ret = FALSE
    /\ pre = <<>>

SpecSorting == InitSorting /\ [][StepCall]_vars

\* populations as Particle::new may draw them, which keeps no two particles
\* apart: alone, spread out, and crowded, with one velocity, at the left wall,
\* in a corner or at the midline
Crowd(at, velocity) ==
    <<Particle(at, velocity, Vec(0, 0)),
      Particle(Vec(at.x + 2 * SCALE, at.y), velocity, Vec(0, 0)),
      Particle(Vec(at.x + 2 * SCALE, at.y + SCALE), velocity, Vec(0, 0))>>

ContainmentStarts ==
    {<<p>> : p \in SortingStarts}
    \cup Populations(2) \cup Populations(3)
    \cup {SubSeq(Crowd(at, v), 1, n) :
            n \in 2..3,
            at \in {Vec(RADIUS, 20 * SCALE), Vec(RADIUS, RADIUS),
                    Vec(30 * SCALE, 20 * SCALE)},
            v \in {Vec(-240 * SCALE, 0), Vec(0, 0), Vec(240 * SCALE, 0)}}

InitContainment ==
    /\ particles \in ContainmentStarts
    /\ \E looking \in BOOLEAN :
          container = [ProgramContainer EXCEPT !.demon_looking = looking]
    /\ law \in {"CoulombLaw", "ImpulseCollision"}
    /\ dt \in RunDeltas
    /\ log = <<particles>>
    /\ pc = "run"
    /\ slider_value = 50 * SCALE
    /\ paused = FALSE
    /\ i = 0 /\ j = 0 /\ k = 0
    /\ substep = 0
    /\ ticks = 0
    /\ ret = FALSE
    /\ pre = <<>>

SpecContainment == InitContainment /\ [][StepCall]_vars

(***************************************************************************)
(* The host's events: one step is one event or, inside update_state, one   *)
(* whole call of compute_single_interaction.  log is the last event and    *)
(* pre the particles it found.                                             *)
(***************************************************************************)
\* update_state up to its loop
BeginUpdateState ==
    /\ ticks < MaxTicks
    /\ \E delta \in FrameDeltas : dt' = delta \div SUBSTEPS
    /\ substep' = 0
    /\ ticks' = ticks + 1
    /\ pc' = "stepping"

\* EventHandler::update
HostUpdate_IgnoresPause ==
    /\ pc = "host"
    /\ log' = <<"update">>
    /\ pre' = particles
    /\ BeginUpdateState
    /\ UNCHANGED <<particles, container, law, slider_value, paused, i, j, k, ret>>

HostUpdate ==
    /\ pc = "host"
    /\ log' = <<"update">>
    /\ pre' = particles
    /\ IF paused THEN UNCHANGED <<dt, substep, ticks, pc>> ELSE BeginUpdateState
    /\ UNCHANGED <<particles, container, law, slider_value, paused, i, j, k, ret>>

\* key_down_event, KeyCode::Space
HostKeySpace ==
    /\ pc = "host"
    /\ log' = <<"space">>
    /\ pre' = particles
    /\ paused' = ~paused
    /\ UNCHANGED <<particles, container, law, slider_value, pc, i, j, k, dt,
                   substep, ticks, ret>>

\* key_down_event, KeyCode::Right
HostKeyRight ==
    /\ pc = "host"
    /\ log' = <<"right">>
    /\ pre' = particles
    /\ BeginUpdateState
    /\ UNCHANGED <<particles, container, law, slider_value, paused, i, j, k, ret>>

\* mouse_button_down_event
HostMouseDown ==
    /\ pc = "host"
    /\ \E button \in Buttons, at \in Clicks :
          /\ MouseEffect(button, at)
          /\ log' = <<"mouse", button, InSlider(container, at.x, at.y)>>
    /\ pre' = particles
    /\ UNCHANGED <<particles, law, paused, pc, i, j, k, dt, substep, ticks, ret>>

\* update_state's loop: the next call of compute_single_interaction, or the
\* return to the host
HostCall ==
    /\ pc = "stepping"
    /\ \A n \in 1..Len(particles) : InRange(particles[n])
    /\ IF substep < SUBSTEPS
       THEN /\ particles' = compute_single_interaction(particles, container, law, dt)
            /\ substep' = substep + 1
            /\ pc' = pc
       ELSE UNCHANGED <<particles, substep>> /\ pc' = "host"
    /\ UNCHANGED <<container, law, slider_value, paused, i, j, k, dt, ticks,
                   ret, pre, log>>

\* MainState::new, then the event loop
InitHost ==
    /\ \E n \in 0..MaxN : particles \in Populations(n)
    /\ container = ProgramContainer
    /\ law \in {"CoulombLaw", "ImpulseCollision"}
    /\ slider_value = 50 * SCALE
    /\ paused = FALSE
    /\ pc = "host"
    /\ i = 0 /\ j = 0 /\ k = 0
    /\ dt = 0
    /\ substep = 0
    /\ ticks = 0
    /\ ret = FALSE
    /\ pre = <<>>
    /\ log = <<>>

NextHost ==
    \/ HostUpdate
    \/ HostKeySpace
    \/ HostKeyRight
    \/ HostMouseDown
    \/ HostCall

SpecHost == InitHost /\ [][NextHost]_vars

(***************************************************************************)
(* Claims                                                                  *)
(***************************************************************************)
\* the places of the log before place n where entry e stands
Before(n, e) == \E q \in 1..(n - 1) : log[q] = e

IsResolve(e) == e[1] = "resolve"

Resolves == SelectSeq(log, IsResolve)

\* C1: in every call of compute_single_interaction, a pair is resolved only
\* after every particle's accumulator has been reset, a particle is integrated
\* only after every accumulator has been reset and every pair has been resolved,
\* a particle's boundary collision comes only after that particle's own
\* integration, and a call that has returned has reset, integrated and collided
\* every particle once.
C1_PhaseOrder ==
    LET len == Len(particles)
    IN  /\ \A n \in 1..Len(log) :
              /\ log[n][1] = "resolve" =>
                    \A m \in 0..(len - 1) : Before(n, <<"reset", m>>)
              /\ log[n][1] = "update" =>
                    /\ \A m \in 0..(len - 1) : Before(n, <<"reset", m>>)
                    /\ \A a \in 0..(len - 1), b \in 0..(len - 1) :
                          a < b => Before(n, <<"resolve", a, b>>)
              /\ log[n][1] = "collide" => Before(n, <<"update", log[n][2]>>)
        /\ pc = "called" =>
              /\ Len(log) = 3 * len + (len * (len - 1)) \div 2
              /\ \A m \in 0..(len - 1) :
                    /\ Before(Len(log) + 1, <<"reset", m>>)
                    /\ Before(Len(log) + 1, <<"update", m>>)
                    /\ Before(Len(log) + 1, <<"collide", m>>)

\* a call on three particles has returned
C1_Witness == pc = "called" /\ Len(particles) = 3 /\ Len(log) = 12

CentreDistSq(a, b) ==
    FMul(b.position.x - a.position.x, b.position.x - a.position.x)
        + FMul(b.position.y - a.position.y, b.position.y - a.position.y)

RadiusSumSq(a, b) == FMul(a.radius + b.radius, a.radius + b.radius)

Overlap(a, b) == CentreDistSq(a, b) < RadiusSumSq(a, b)

\* the rate at which the distance of the centres grows, times that distance:
\* negative when the centres approach each other, positive when they move apart
Closing(a, b) ==
    (b.velocity.x - a.velocity.x) * ((b.position.x - a.position.x) \div SCALE)
        + (b.velocity.y - a.velocity.y) * ((b.position.y - a.position.y) \div SCALE)

Approaching(a, b) == Closing(a, b) < 0

MovingApart(a, b) == Closing(a, b) > 0

\* v is along the line of the centres
AlongCentres(v, a, b) ==
    v.x * ((b.position.y - a.position.y) \div SCALE)
        = v.y * ((b.position.x - a.position.x) \div SCALE)

HeadOn(a, b) ==
    /\ AlongCentres(a.velocity, a, b)
    /\ AlongCentres(b.velocity, a, b)
    /\ Approaching(a, b)

\* C3: after resolve on an overlapping pair approaching head-on, the two
\* velocities are exchanged and the centres are radius_sum apart.
C3_HeadOnExchange ==
    (pc = "returned" /\ Overlap(pre[1], pre[2]) /\ HeadOn(pre[1], pre[2])) =>
        /\ particles[1].velocity = pre[2].velocity
        /\ particles[2].velocity = pre[1].velocity
        /\ FSqrt(CentreDistSq(particles[1], particles[2]))
               = particles[1].radius + particles[2].radius

\* resolve has returned for the radius-5 pair 8 apart on the x-axis with
\* velocities (5, 0) and (-5, 0)
C3_Witness ==
    /\ pc = "returned"
    /\ pre[2].position.x - pre[1].position.x = 8 * SCALE
    /\ pre[2].position.y = pre[1].position.y
    /\ pre[1].velocity = Vec(5 * SCALE, 0)
    /\ pre[2].velocity = Vec(-5 * SCALE, 0)

\* C4: resolve on an overlapping pair whose centres move apart returns true and
\* changes nothing, and resolve changes a velocity only of an overlapping pair
\* whose centres approach each other.
C4_SeparatingSkipped ==
    pc = "returned" =>
        /\ (Overlap(pre[1], pre[2]) /\ MovingApart(pre[1], pre[2])) =>
              (ret = TRUE /\ particles = pre)
        /\ (\E n \in 1..2 : particles[n].velocity # pre[n].velocity) =>
              (Overlap(pre[1], pre[2]) /\ Approaching(pre[1], pre[2]))

\* resolve has returned for an overlapping pair whose centres moved apart
C4_Witness ==
    /\ pc = "returned"
    /\ Overlap(pre[1], pre[2])
    /\ MovingApart(pre[1], pre[2])

C6_ReturnValue ==
    pc = "returned" =>
        /\ ret = FALSE <=> CentreDistSq(pre[1], pre[2]) >= RadiusSumSq(pre[1], pre[2])
        /\ ret = FALSE => particles = pre
        /\ pre[1].position = pre[2].position => (ret = TRUE /\ particles = pre)

\* resolve has returned false for a pair that exactly touches
C6_Witness ==
    /\ pc = "returned"
    /\ ret = FALSE
    /\ CentreDistSq(pre[1], pre[2]) = RadiusSumSq(pre[1], pre[2])

(***************************************************************************)
(* Claims about CoulombLaw::resolve                                        *)
(***************************************************************************)
\* the centres are farther apart than the cutoff
Beyond(a, b) == CentreDistSq(a, b) > FMul(Cutoff, Cutoff)

SumForce ==
    LET RECURSIVE Sum(_)
        Sum(n) ==
            IF n = 0 THEN Vec(0, 0)
            ELSE Vec(Sum(n - 1).x + particles[n].force.x,
                     Sum(n - 1).y + particles[n].force.y)
    IN  Sum(Len(particles))

\* the pair pass of the running call is over and no particle is integrated yet
PassOver == pc = "update" /\ k = 0

Within(p, wall, coordinate) == Abs(coordinate - wall) <= p.radius

AtLeft(c, p) == Within(p, c.boundaries.x, p.position.x)

AtRight(c, p) == Within(p, c.boundaries.w, p.position.x)

AtCeiling(c, p) == Within(p, c.boundaries.y, p.position.y)

AtGround(c, p) == Within(p, c.boundaries.z, p.position.y)

\* how many of the four walls p is within its radius of
WallsAt(c, p) ==
    (IF AtLeft(c, p) THEN 1 ELSE 0) + (IF AtRight(c, p) THEN 1 ELSE 0)
        + (IF AtCeiling(c, p) THEN 1 ELSE 0) + (IF AtGround(c, p) THEN 1 ELSE 0)

\* C9: with the gate inactive, collision on a particle within its radius of
\* exactly one wall negates the velocity component perpendicular to that wall
\* and keeps the other component and the speed; on a particle farther than its
\* radius from all four walls it changes nothing.  Under SpecCollision, the
\* containers MainState::new builds.
C9_Reflection ==
    (pc = "returned" /\ ~container.demon_looking) =>
        LET p == pre[1]
            q == particles[1]
        IN  /\ WallsAt(container, p) = 0 => q = p
            /\ (WallsAt(container, p) = 1
                    /\ (AtLeft(container, p) \/ AtRight(container, p))) =>
                  /\ q.velocity.x = -p.velocity.x
                  /\ q.velocity.y = p.velocity.y
                  /\ speed(q) = speed(p)
            /\ (WallsAt(container, p) = 1
                    /\ (AtCeiling(container, p) \/ AtGround(container, p))) =>
                  /\ q.velocity.y = -p.velocity.y
                  /\ q.velocity.x = p.velocity.x
                  /\ speed(q) = speed(p)

\* collision has reflected a particle that was at the ground only and moved
\* along both axes
C9_Witness ==
    /\ pc = "returned"
    /\ ~container.demon_looking
    /\ WallsAt(container, pre[1]) = 1
    /\ AtGround(container, pre[1])
    /\ pre[1].velocity.x # 0
    /\ pre[1].velocity.y # 0
    /\ particles[1].velocity.y = -pre[1].velocity.y

\* C10: in any container, after collision on a particle that was within its
\* radius of a wall, the particle is exactly its radius inside that wall.
\* Under SpecCollisionAny.
C10_FlushToWall ==
    pc = "returned" =>
        LET p == pre[1]
            q == particles[1]
            b == container.boundaries
        IN  /\ AtLeft(container, p) => q.position.x = b.x + q.radius
            /\ AtRight(container, p) => q.position.x = b.w - q.radius
            /\ AtCeiling(container, p) => q.position.y = b.y + q.radius
            /\ AtGround(container, p) => q.position.y = b.z - q.radius

\* collision has returned for a particle that was within its radius of the left
\* wall of a container whose left wall is not at 0
C10_Witness ==
    /\ pc = "returned"
    /\ container.boundaries.x # 0
    /\ AtLeft(container, pre[1])

(***************************************************************************)
(* Claims about the demon's gate, under SpecCollision                      *)
(***************************************************************************)
\* the square of the speed, exactly, in units of SCALE * SCALE
SpeedSq(v) == v.x * v.x + v.y * v.y

\* the squares of the two speeds the gate compares with
FastSq == (140 * SCALE) * (140 * SCALE)

SlowSq == (10 * SCALE) * (10 * SCALE)

\* p is within its radius of the vertical line half way between the side walls
AtMidline(c, p) ==
    Within(p, c.boundaries.x + (c.boundaries.w - c.boundaries.x) \div 2,
           p.position.x)

\* collision has returned, the gate was active and the particle was at the gate
\* and at none of the four walls
GateCall ==
    /\ pc = "returned"
    /\ container.demon_looking
    /\ AtMidline(container, pre[1])
    /\ WallsAt(container, pre[1]) = 0

\* C11: at the active gate, collision leaves a particle with vx <= 0 and speed
\* >= 140 unchanged, and negates vx (and nothing else of the velocity) of a
\* particle with vx <= 0 and speed < 140.
C11_GateLeftward ==
    (GateCall /\ pre[1].velocity.x <= 0) =>
        IF SpeedSq(pre[1].velocity) >= FastSq
        THEN particles = pre
        ELSE /\ particles[1].velocity.x = -pre[1].velocity.x
             /\ particles[1].velocity.y = pre[1].velocity.y

\* collision has returned for a particle at the active gate with vx = 0 and
\* speed >= 140
C11_Witness ==
    /\ GateCall
    /\ pre[1].velocity.x = 0
    /\ SpeedSq(pre[1].velocity) >= FastSq

\* C12: at the active gate, collision leaves a particle with vx >= 0 and speed
\* <= 10 unchanged, and negates vx of a particle with vx >= 0 and speed > 10 and
\* moves it by its radius along x.
C12_GateRightward ==
    (GateCall /\ pre[1].velocity.x >= 0) =>
        IF SpeedSq(pre[1].velocity) <= SlowSq
        THEN particles = pre
        ELSE /\ particles[1].velocity.x = -pre[1].velocity.x
             /\ particles[1].velocity.y = pre[1].velocity.y
             /\ Abs(particles[1].position.x - pre[1].position.x) = pre[1].radius

\* collision has returned for a particle at the active gate with vx = 0 and
\* speed <= 10
C12_Witness ==
    /\ GateCall
    /\ pre[1].velocity.x = 0
    /\ SpeedSq(pre[1].velocity) <= SlowSq

\* C11 and C12 for the particles that do move along x
GateStrict ==
    (GateCall /\ pre[1].velocity.x # 0) => (C11_GateLeftward /\ C12_GateRightward)

(***************************************************************************)
(* Claims about runs                                                       *)
(***************************************************************************)
\* the line half way between the side walls
Midline(c) == c.boundaries.x + (c.boundaries.w - c.boundaries.x) \div 2

RightOfGate(c, p) == p.position.x > Midline(c) + p.radius

LeftOfGate(c, p) == p.position.x < Midline(c) - p.radius

\* p is at the gate, moving leftward with speed >= 140
FastLeftward(c, p) ==
    /\ AtMidline(c, p)
    /\ p.velocity.x <= 0
    /\ SpeedSq(p.velocity) >= FastSq

\* p is at the gate, moving rightward with speed <= 10
SlowRightward(c, p) ==
    /\ AtMidline(c, p)
    /\ p.velocity.x >= 0
    /\ SpeedSq(p.velocity) <= SlowSq

\* C13: in a run of one particle with the gate active, whenever the particle is
\* more than its radius right of the midline after one call and more than its
\* radius left of it after a later call, it was at the gate moving leftward
\* with speed >= 140 after some call in between; and from left to right, at
\* the gate moving rightward with speed <= 10.
C13_Sorting ==
    (pc = "run" /\ Len(particles) = 1 /\ container.demon_looking) =>
        \A a \in 1..Len(log), b \in 1..Len(log) :
            a < b =>
                /\ (RightOfGate(container, log[a][1]) /\ LeftOfGate(container, log[b][1]))
                      => \E m \in a..b : FastLeftward(container, log[m][1])
                /\ (LeftOfGate(container, log[a][1]) /\ RightOfGate(container, log[b][1]))
                      => \E m \in a..b : SlowRightward(container, log[m][1])

\* a particle that started right of the gate is left of it
C13_Witness ==
    /\ pc = "run"
    /\ container.demon_looking
    /\ RightOfGate(container, log[1][1])
    /\ LeftOfGate(container, particles[1])

\* a particle that started left of the gate is right of it
C13_WitnessRightward ==
    /\ pc = "run"
    /\ container.demon_looking
    /\ LeftOfGate(container, log[1][1])
    /\ RightOfGate(container, particles[1])

(***************************************************************************)
(* Claims about the host's controls, under SpecHost                        *)
(***************************************************************************)
\* the step is the handling of the event `name`
Event(name) == pc = "host" /\ log' # <<>> /\ log'[1] = name

\* C14: an update tick while paused starts no stepping and changes no
\* particle; the paused flag is changed by the Space key only, which flips it
\* and changes nothing else of the simulation; the Right key starts the
\* stepping, paused or not, and leaves the flag as it is, and every call of
\* the stepping it starts changes the particles.
C14_PauseGates ==
    [][/\ (Event("update") /\ paused) =>
             /\ pc' = "host"
             /\ UNCHANGED <<particles, ticks, substep>>
       /\ paused' # paused => Event("space")
       /\ Event("space") =>
             /\ paused' = ~paused
             /\ UNCHANGED <<particles, container, law, slider_value, ticks, pc>>
       /\ Event("right") =>
             /\ paused' = paused
             /\ ticks' = ticks + 1
             /\ pc' = "stepping"
       /\ (pc = "stepping" /\ substep < SUBSTEPS /\ Len(particles) > 0) =>
             particles' # particles]_vars

\* the Right key has advanced a paused simulation
C14_Witness ==
    /\ pc = "host"
    /\ paused
    /\ log = <<"right">>
    /\ particles # pre

\* an update tick has found the simulation paused, after it had advanced
C14_WitnessPausedTick ==
    /\ pc = "host"
    /\ paused
    /\ log = <<"update">>
    /\ ticks > 0

(***************************************************************************)
(* Claims about Particle::update, under SpecUpdate                         *)
(***************************************************************************)
\* a and b differ by less than `ulps` units of the last place, both counted in
\* units that are `per` times finer
Near(a, b, per, ulps) == Abs(a - b) < ulps * per

RECURSIVE ExactEnergy(_, _)
ExactEnergy(ps, n) ==
    IF n = 0 THEN 0
    ELSE ExactEnergy(ps, n - 1) + SpeedSq(ps[n].velocity) \div (2 * SCALE)

\* what the rounding of the square root and of the products may add up to
RECURSIVE Slack(_, _)
Slack(ps, n) ==
    IF n = 0 THEN 0
    ELSE Slack(ps, n - 1) + Isqrt(SpeedSq(ps[n].velocity)) \div SCALE + 3

\* the result is the sum of the kinetic energies divided by N
IsAverage ==
    /\ ~ret.nan
    /\ Abs(Len(particles) * ret.value - ExactEnergy(particles, Len(particles)))
           <= Slack(particles, Len(particles)) + Len(particles)

\* C16: for no particle the average kinetic energy is a defined number, not a
\* non-finite result; for N >= 1 it is the sum of the kinetic energies
\* divided by N.
C16_GuardedAverage ==
    pc = "returned" =>
        /\ Len(particles) = 0 => ~ret.nan
        /\ Len(particles) >= 1 => IsAverage

\* the average has been taken of no particle
C16_Witness == pc = "returned" /\ Len(particles) = 0

\* the second half of C16 alone
C16_AverageOfSome == (pc = "returned" /\ Len(particles) >= 1) => IsAverage

(***************************************************************************)
(* Claims about the accumulators over the steps, under Spec                *)
(***************************************************************************)
Zero(p) == p.force = Vec(0, 0)

\* the pair pass of the running call is about to resolve its first pair
PassBegins == pc = "pairs" /\ Resolves = <<>>

\* C17: when the pair pass of a call begins every particle's accumulator is
\* (0, 0), and under the impulse law every accumulator is (0, 0) always.
C17_ZeroAtPassStart ==
    /\ PassBegins => \A n \in 1..Len(particles) : Zero(particles[n])
    /\ law = "ImpulseCollision" => \A n \in 1..Len(particles) : Zero(particles[n])

\* a pair pass begins in a call that found an accumulator that was not (0, 0)
C17_Witness ==
    /\ PassBegins
    /\ \E n \in 1..Len(pre) : ~Zero(pre[n])

(***************************************************************************)
(* Claims about what the controls change, under SpecHost                   *)
(***************************************************************************)
\* the step is a click of `button`, inside the slider or not
Click(button, inside) ==
    pc = "host" /\ log' = <<"mouse", button, inside>>

\* C18: the walls never change and the gate flag starts inactive and changes
\* only with a click outside the slider, to inactive with the left button and
\* to active with the right one; the number of particles, their radii and the
\* law never change; the slider value changes only with a click inside the
\* slider, which changes nothing else, and stays in [0, 100].
C18_ContainerFrame ==
    /\ (log = <<>>) => ~container.demon_looking
    /\ [](slider_value >= 0 /\ slider_value <= 100 * SCALE)
    /\ [][/\ container'.boundaries = container.boundaries
          /\ law' = law
          /\ Len(particles') = Len(particles)
          /\ \A n \in 1..Len(particles) : particles'[n].radius = particles[n].radius
          /\ container' # container =>
                \/ Click("Left", FALSE) /\ ~container'.demon_looking
                \/ Click("Right", FALSE) /\ container'.demon_looking
          /\ Click("Left", FALSE) => ~container'.demon_looking
          /\ Click("Right", FALSE) => container'.demon_looking
          /\ slider_value' # slider_value => \E b \in Buttons : Click(b, TRUE)
          /\ (\E b \in Buttons : Click(b, TRUE)) =>
                UNCHANGED <<particles, container, law, paused, ticks, pc>>]_vars

\* the right button has activated the gate of a simulation that has advanced
C18_Witness ==
    /\ log = <<"mouse", "Right", FALSE>>
    /\ container.demon_looking
    /\ ticks > 0

\* a click inside the slider has changed the slider value
C18_WitnessSlider ==
    /\ log # <<>>
    /\ log[1] = "mouse"
    /\ log[3] = TRUE
    /\ slider_value # 50 * SCALE

(***************************************************************************)
(* Containment, under SpecContainment                                      *)
(***************************************************************************)
\* the centre lies in the container inset by the radius
Inside(c, p) ==
    /\ c.boundaries.x + p.radius <= p.position.x
    /\ p.position.x <= c.boundaries.w - p.radius
    /\ c.boundaries.y + p.radius <= p.position.y
    /\ p.position.y <= c.boundaries.z - p.radius

\* C19: from centres inside the container inset by the radius, and with every
\* integration moving a particle by less than its radius, every centre is
\* inside the inset container after every call of compute_single_interaction.
C19_Containment ==
    \A n \in 1..Len(particles) : Inside(container, particles[n])

\* a call under the impulse law has ended with a centre more than a radius
\* beyond the left wall, where collision no longer tests it
C19_Witness ==
    /\ Len(log) > 1
    /\ law = "ImpulseCollision"
    /\ \A n \in 1..Len(pre) : Inside(container, pre[n])
    /\ \E n \in 1..Len(particles) :
          particles[n].position.x < container.boundaries.x - particles[n].radius

\* the same for the populations the Coulomb law steps, and for those of at most
\* two particles
C19_ContainedPairs ==
    (law = "CoulombLaw" \/ Len(particles) <= 2) => C19_Containment

====
